---- MODULE Spec2Model ----
(***************************************************************************)
(* Model of simple_music_player (src/src/app.rs, src/src/ui.rs).           *)
(*                                                                         *)
(* The control thread (run_app) handles one key event at a time.  A call   *)
(* of App::play_song_by_path is split at its blocking point (the join of   *)
(* the previous feeder thread) and between the spawn of the worker threads *)
(* and sink.append, so that the worker threads interleave with it.  Every  *)
(* play_song_by_path that spawns threads creates a new pipeline            *)
(* generation g: feeder[g] (the audio thread, app.rs:210-223), analyzer[g] *)
(* (the spectrum thread, app.rs:227-263), playback[g] and spectrum[g] (the *)
(* two ring buffers, app.rs:203-207).  The rodio Sink is modelled by what  *)
(* the calls made on it do: which source it holds and whether it is paused.*)
(***************************************************************************)
EXTENDS Integers, Sequences, FiniteSets, TLC

\* ---------------------------------------------------------------- bounds
\* The number of pipeline generations (successful spawns) a run may create:
\* over a catalog of songs that decode to an empty stream, and over one
\* that holds songs with samples.
MaxGen == 4
MaxLongGen == 2
\* The longest run of consecutive advance() calls that is counted.
MaxRun == 4
\* The longest playback position, in seconds, that sink.get_pos() returns.
MaxPos == 7

\* ------------------------------------------------------ program constants
\* Capacity of each ring buffer (sample_rate * 5 in the code, scaled down).
RingCap == 2
\* fft_size (1024 in the code, scaled down; must stay even).
FftSize == 2
\* The seek step in seconds (Duration::from_secs(5)).
SeekStep == 5

\* Option::None for current_song_path, for selected_song_index and for
\* audio_thread_handle.
NoSong == "None"
NoIndex == -1
NoHandle == 0

\* ------------------------------------------------------------ the files
\* The files the music directory may hold.  x.mp3 has an accepted extension
\* but cannot be decoded; s.wav and t.wav are the songs long enough to fill
\* a ring buffer and u.wav is long enough for two analysis windows; the
\* others decode to an empty stream.
Songs == {"a.mp3", "b.flac", "c.wav", "x.mp3", "s.wav", "t.wav", "u.wav"}

\* Decoder::new(file) succeeds (app.rs:198-199).
Decodable(song) == song # "x.mp3"

\* The number of samples source.next() yields before None (app.rs:213).
NumSamples(song) ==
  CASE song \in {"s.wav", "t.wav"} -> 3 [] song = "u.wav" -> 4 [] OTHER -> 0

\* The characters of p.to_str() (app.rs:411), the file name only.
PathChars(song) ==
  CASE song = "a.mp3"  -> <<"a", ".", "m", "p", "3">>
    [] song = "b.flac" -> <<"b", ".", "f", "l", "a", "c">>
    [] song = "c.wav"  -> <<"c", ".", "w", "a", "v">>
    [] song = "x.mp3"  -> <<"x", ".", "m", "p", "3">>
    [] song = "s.wav"  -> <<"s", ".", "w", "a", "v">>
    [] song = "t.wav"  -> <<"t", ".", "w", "a", "v">>
    [] song = "u.wav"  -> <<"u", ".", "w", "a", "v">>

\* The results of load_playlist("music") (app.rs:82) that are explored.
NavCatalogs ==
  { <<>>,
    <<"a.mp3", "b.flac">>,
    <<"a.mp3", "b.flac", "c.wav">>,
    <<"x.mp3", "a.mp3", "b.flac">> }
PipeCatalogs == { <<"s.wav", "x.mp3", "t.wav">> }
FrameCatalogs == { <<"u.wav">> }
RingCatalogs == { <<"t.wav">> }
SeekCatalogs == { <<"t.wav", "x.mp3">> }

\* The search strings the user types (KeyCode::Char(c), one character at a
\* time): "B" matches b.flac after lowercasing, "z" matches no file.
Queries == { <<"B">>, <<"z">> }
TypedChars == UNION {{q[i] : i \in 1..Len(q)} : q \in Queries}
IsPrefix(str) ==
  \E q \in Queries : Len(str) <= Len(q) /\ SubSeq(q, 1, Len(str)) = str

\* --------------------------------------------------------- pure helpers
\* char::to_lowercase over the characters in use (app.rs:413-414).
LowerChar(c) == CASE c = "A" -> "a" [] c = "B" -> "b" [] OTHER -> c
ToLowercase(str) == [i \in 1..Len(str) |-> LowerChar(str[i])]

\* str::contains (app.rs:414): needle occurs in hay as a substring.
Contains(hay, needle) ==
  \E off \in 0..(Len(hay) - Len(needle)) :
    \A i \in 1..Len(needle) : hay[off + i] = needle[i]

\* The filter of the Enter handler (app.rs:410-415).
Matches(song, inp) == Contains(ToLowercase(PathChars(song)), ToLowercase(inp))

\* iter().filter(..).cloned().collect() (app.rs:407-417).
RECURSIVE Filter(_, _)
Filter(list, inp) ==
  IF list = <<>> THEN <<>>
  ELSE (IF Matches(Head(list), inp) THEN <<Head(list)>> ELSE <<>>)
       \o Filter(Tail(list), inp)

\* A lookup that never finds the song.
PositionNeverFound(list, p) == NoIndex

\* songs_to_play.iter().position(|s| s == p) on Option<&PathBuf>
\* (app.rs:286-289, 314-317): the first 0-based index, or NoIndex.
Position(list, p) ==
  IF p # NoSong /\ \E i \in 1..Len(list) : list[i] = p
  THEN (CHOOSE i \in 1..Len(list) :
          list[i] = p /\ \A j \in 1..(i - 1) : list[j] # p) - 1
  ELSE NoIndex

\* Vec::get(i) with a 0-based index (app.rs:175-177).
Get(list, i) == IF i >= 0 /\ i < Len(list) THEN list[i + 1] ELSE NoSong

\* An increment that stops at the last entry instead of wrapping.
NextIndexNoWrap(cur, len) ==
  IF cur # NoIndex THEN (IF cur + 1 < len THEN cur + 1 ELSE cur) ELSE 0

\* next_index of next_song (app.rs:291-294).
NextIndex(cur, len) == IF cur # NoIndex THEN (cur + 1) % len ELSE 0

\* A decrement that treats a missing anchor as position 0 and wraps.
PrevIndexFromZero(cur, len) ==
  IF cur # NoIndex /\ cur # 0 THEN cur - 1 ELSE len - 1

\* prev_index of previous_song (app.rs:319-328).
PrevIndex(cur, len) ==
  IF cur # NoIndex THEN (IF cur = 0 THEN len - 1 ELSE cur - 1) ELSE 0

\* select_next's index (app.rs:349) and select_previous's (app.rs:365-367).
SelectNextIndex(sel, len) == IF sel = NoIndex THEN 0 ELSE (sel + 1) % len
SelectPrevIndex(sel, len) ==
  IF sel = NoIndex THEN 0 ELSE (IF sel = 0 THEN len - 1 ELSE sel - 1)

\* The sample at decode position i, and the spectrum frame the analyzer
\* derives from one window (app.rs:244-257).  rustfft is outside the
\* repository: a bin is modelled as the sum of the two window samples that
\* fold onto it, the decibel value as a table, and the NaN/infinity test of
\* app.rs:256 as the test for the bin whose logarithm is not finite.  A
\* frame entry is [finite, db]; a song starts with silence, so that a window
\* of zeros (magnitude 0, logarithm -infinity) is among those analysed.
SampleValue(i) == IF i <= FftSize THEN 0 ELSE 1
BinMagnitude(win, k) == SampleValue(win[k]) + SampleValue(win[k + FftSize \div 2])
Decibels(m) ==
  CASE m = 0 -> [finite |-> FALSE, db |-> 0]
    [] m = 1 -> [finite |-> TRUE, db |-> 0 - 54]
    [] OTHER -> [finite |-> TRUE, db |-> 0 - 48]
ZeroValue == [finite |-> TRUE, db |-> 0]
NormaliseKeep(v) == v
Normalise(v) == IF v.finite THEN v ELSE ZeroValue
Frame(win) ==
  [k \in 1..(FftSize \div 2) |-> Normalise(Decibels(BinMagnitude(win, k)))]

Gens == 1..MaxGen

\* ---------------------------------------------------------------- state
VARIABLES
  \* the fields of App (app.rs:60-73)
  input,                \* String, as a sequence of characters
  input_mode,           \* "Normal" | "Editing"
  playlist,             \* Vec<PathBuf>
  search_results,       \* Vec<PathBuf>
  hasSink,              \* sink.is_some()
  current_song_path,    \* a song, or NoSong
  selected_song_index,  \* a 0-based index, or NoIndex
  is_playing,           \* bool
  spectrogram_data,     \* the frame behind the Mutex
  audio_thread_handle,  \* the generation of the feeder it joins, or NoHandle
  stop_audio_thread,    \* the AtomicBool
  \* the rodio Sink, by the effect of the calls made on it
  sinkSrc,              \* the generation whose RingBufferSource it holds, or 0
  sinkPaused,           \* sink.is_paused()
  sinkPos,              \* sink.get_pos(), in whole seconds
  \* the pipelines
  gen,                  \* the number of generations spawned so far
  feeder,               \* generation -> [pc, pos, len] of the audio thread:
                        \* samples pulled from, and held by, its decoder
  analyzer,             \* generation -> [pc, buf, out] of the spectrum thread
  playback,             \* generation -> contents of playback_rb
  spectrum,             \* generation -> contents of spectrogram_rb
  lock,                 \* holder of the spectrogram_data Mutex, or 0
  \* the control thread inside a key handler
  pc,                   \* "idle" | "join" | "append"
  call,                 \* [op, path, idx] of the handler in progress
  \* history, for stating the claims
  last,                 \* [op, res, path] of the handler that last returned
  pre,                  \* the App state when that handler was entered
  run,                  \* the current run of consecutive advance() calls
  tick,                 \* the last turn of the control loop read no key and
                        \* found is_playing set and the sink empty
  drawn,                \* [done, frame]: the frame ui() last read and drew
  sought,               \* [op, from, target]: the sink.try_seek call of the
                        \* handler that last returned, if it made one
  sent                  \* generation -> the samples its feeder's pushes have
                        \* put into each ring, in the order of the pushes

appVars == <<input, input_mode, playlist, search_results, hasSink,
             current_song_path, selected_song_index, is_playing>>
sinkVars == <<sinkSrc, sinkPaused, sinkPos>>
threadVars == <<gen, feeder, analyzer, playback, spectrum, lock,
                spectrogram_data, audio_thread_handle, stop_audio_thread>>
ctlVars == <<pc, call>>
histVars == <<last, pre, run, tick, drawn, sought, sent>>
vars == <<appVars, sinkVars, threadVars, ctlVars, histVars>>

\* songs_to_play (app.rs:276-280, 304-308, 338-342, 354-358; ui.rs:25-29).
ActiveList == IF input = <<>> THEN playlist ELSE search_results

NoCall == [op |-> "-", path |-> NoSong, idx |-> NoIndex]
NoSeek == [op |-> "-", from |-> 0, target |-> 0]
NoRun ==
  [dir |-> "-", start |-> NoSong, startSel |-> NoIndex, count |-> 0,
   anchored |-> FALSE, ok |-> FALSE]

\* The part of the state a handler is entered in that the claims compare.
Snapshot ==
  [is_playing |-> is_playing, current |-> current_song_path,
   sel |-> selected_song_index, gen |-> gen, sinkSrc |-> sinkSrc,
   sinkPaused |-> sinkPaused,
   handle |-> audio_thread_handle,
   feederLive |-> IF audio_thread_handle = NoHandle THEN FALSE
                  ELSE feeder[audio_thread_handle].pc # "done",
   anchor |-> Position(ActiveList, current_song_path)]

\* App::new (app.rs:76-100) over the catalogs given; no thread exists.
InitWith(catalogs) ==
  /\ input = <<>>
  /\ input_mode = "Normal"
  /\ playlist \in catalogs
  /\ search_results = <<>>
  /\ hasSink \in BOOLEAN
  /\ current_song_path = NoSong
  /\ selected_song_index = (IF playlist = <<>> THEN NoIndex ELSE 0)
  /\ is_playing = FALSE
  /\ spectrogram_data = [k \in 1..(FftSize \div 2) |-> ZeroValue]
  /\ audio_thread_handle = NoHandle
  /\ stop_audio_thread = FALSE
  /\ sinkSrc = 0
  /\ sinkPaused = FALSE
  /\ sinkPos = 0
  /\ gen = 0
  /\ feeder = [g \in Gens |-> [pc |-> "unborn", pos |-> 0, len |-> 0]]
  /\ analyzer = [g \in Gens |-> [pc |-> "unborn", buf |-> <<>>, out |-> <<>>]]
  /\ playback = [g \in Gens |-> <<>>]
  /\ spectrum = [g \in Gens |-> <<>>]
  /\ lock = 0
  /\ pc = "idle"
  /\ call = NoCall
  /\ last = [op |-> "-", res |-> "-", path |-> NoSong]
  /\ pre = Snapshot
  /\ run = NoRun
  /\ tick = FALSE
  /\ drawn = [done |-> FALSE, frame |-> <<>>]
  /\ sought = NoSeek
  /\ sent = [g \in Gens |-> [playback |-> <<>>, spectrum |-> <<>>]]

Init == InitWith(PipeCatalogs)
InitFrame == InitWith(FrameCatalogs)
InitRings == InitWith(RingCatalogs)
InitSeek == InitWith(SeekCatalogs)
InitNav == InitWith(NavCatalogs)

\* ------------------------------------------------- the control thread
Min(a, b) == IF a < b THEN a ELSE b

\* The run of consecutive advance() calls after handler op returned; played
\* says that its play_song_by_path reached sink.append.
RunAfter(op, played, snap) ==
  IF op \notin {"next_song", "previous_song"} THEN NoRun
  ELSE IF run.dir = op /\ run.count > 0
       THEN [run EXCEPT !.count = Min(run.count + 1, MaxRun),
                        !.ok = run.ok /\ played]
       ELSE [dir |-> op, start |-> snap.current, startSel |-> snap.sel,
             count |-> 1, anchored |-> snap.anchor # NoIndex,
             ok |-> played /\ snap.anchor # NoIndex]

\* The ring of generation g once the sink has dropped its RingBufferSource:
\* the buffer is freed when the producer half is gone as well.
DropConsumer(g) ==
  IF g # 0 /\ feeder[g].pc = "done"
  THEN [playback EXCEPT ![g] = <<>>] ELSE playback

\* A return that assigns the index the caller computed whatever the result
\* of play_song_by_path was.
ReturnFromAssignsAlways(op, res, path, idx, snap) ==
  /\ pc' = "idle"
  /\ call' = NoCall
  /\ last' = [op |-> op, res |-> res, path |-> path]
  /\ pre' = snap
  /\ run' = RunAfter(op, res = "Ok" /\ hasSink /\ path # NoSong, snap)
  /\ tick' = FALSE
  /\ sought' = NoSeek
  /\ UNCHANGED <<drawn, sent>>
  /\ selected_song_index' = (IF idx # NoIndex THEN idx ELSE selected_song_index)

\* The handler returns: `?` propagates Err before the caller's assignment of
\* selected_song_index (app.rs:297-298, 331-332); run_app drops the Result
\* (app.rs:385, 388, 391).
ReturnFrom(op, res, path, idx, snap) ==
  /\ pc' = "idle"
  /\ call' = NoCall
  /\ last' = [op |-> op, res |-> res, path |-> path]
  /\ pre' = snap
  /\ run' = RunAfter(op, res = "Ok" /\ hasSink /\ path # NoSong, snap)
  /\ tick' = FALSE
  /\ sought' = NoSeek
  /\ UNCHANGED <<drawn, sent>>
  /\ selected_song_index' =
       (IF res = "Ok" /\ idx # NoIndex THEN idx ELSE selected_song_index)

\* The bound on the generations of this run.
GenCap ==
  IF \E i \in 1..Len(playlist) : NumSamples(playlist[i]) > 0
  THEN MaxLongGen ELSE MaxGen

\* A play_song_by_path that takes the sink for granted.
PlayEnterAssumesSink(op, path, idx) ==
  /\ gen < GenCap \/ ~Decodable(path)
  /\ sinkSrc' = 0
  /\ sinkPaused' = TRUE
  /\ sinkPos' = 0
  /\ playback' = DropConsumer(sinkSrc)
  /\ stop_audio_thread' = TRUE
  /\ pc' = "join"
  /\ call' = [op |-> op, path |-> path, idx |-> idx]
  /\ pre' = Snapshot
  /\ tick' = FALSE
  /\ sought' = NoSeek
  /\ UNCHANGED <<appVars, last, run, drawn, sent, gen, feeder,
                 analyzer, spectrum, lock, spectrogram_data,
                 audio_thread_handle>>

\* play_song_by_path up to the join (app.rs:187-193): without a sink the
\* body is skipped and Ok(()) returned; with one, stop, clear (which leaves
\* the sink empty and paused) and the store of the stop flag.
PlayEnter(op, path, idx) ==
  IF hasSink
  THEN /\ gen < GenCap \/ ~Decodable(path)
       /\ sinkSrc' = 0
       /\ sinkPaused' = TRUE
       /\ sinkPos' = 0
       /\ playback' = DropConsumer(sinkSrc)
       /\ stop_audio_thread' = TRUE
       /\ pc' = "join"
       /\ call' = [op |-> op, path |-> path, idx |-> idx]
       /\ pre' = Snapshot
       /\ tick' = FALSE
       /\ sought' = NoSeek
       /\ UNCHANGED <<appVars, last, run, drawn, sent, gen, feeder,
                      analyzer, spectrum, lock, spectrogram_data,
                      audio_thread_handle>>
  ELSE /\ ReturnFrom(op, "Ok", path, idx, Snapshot)
       /\ UNCHANGED <<input, input_mode, playlist, search_results, hasSink,
                      current_song_path, is_playing, sinkVars, threadVars>>

\* A handler that returns without calling play_song_by_path.
NoPlay(op) ==
  /\ ReturnFrom(op, "Ok", NoSong, NoIndex, Snapshot)
  /\ UNCHANGED <<input, input_mode, playlist, search_results, hasSink,
                 current_song_path, is_playing, sinkVars, threadVars>>

\* handle.join() returns (app.rs:193-195) once the feeder thread has ended.
JoinReturns ==
  IF audio_thread_handle = NoHandle THEN TRUE
  ELSE feeder[audio_thread_handle].pc = "done"

\* app.rs:193-224: join, reset the flag, open and decode the file (Err
\* returns here), create the rings and spawn the two threads.
PlayJoin ==
  /\ pc = "join"
  /\ JoinReturns
  /\ stop_audio_thread' = FALSE
  /\ IF Decodable(call.path)
     THEN /\ gen' = gen + 1
          /\ feeder' = [feeder EXCEPT ![gen + 1] =
                          [pc |-> "check", pos |-> 0,
                           len |-> NumSamples(call.path)]]
          /\ analyzer' = [analyzer EXCEPT ![gen + 1].pc = "collect"]
          /\ audio_thread_handle' = gen + 1
          /\ pc' = "append"
          /\ UNCHANGED <<appVars, sinkVars, playback, spectrum, lock,
                         spectrogram_data, call, histVars>>
     ELSE /\ audio_thread_handle' = NoHandle
          /\ ReturnFrom(call.op, "Err", call.path, call.idx, pre)
          /\ UNCHANGED <<input, input_mode, playlist, search_results, hasSink,
                         current_song_path, is_playing, sinkVars, gen,
                         feeder, analyzer, playback, spectrum, lock,
                         spectrogram_data>>

\* app.rs:265-272 and the caller's assignment of the index.
PlayAppend ==
  /\ pc = "append"
  /\ sinkSrc' = gen
  /\ sinkPaused' = FALSE
  /\ sinkPos' = 0
  /\ current_song_path' = call.path
  /\ is_playing' = TRUE
  /\ ReturnFrom(call.op, "Ok", call.path, call.idx, pre)
  /\ UNCHANGED <<input, input_mode, playlist, search_results, hasSink,
                 threadVars>>

Normal == pc = "idle" /\ input_mode = "Normal"
Editing == pc = "idle" /\ input_mode = "Editing"

\* play_selected_song reading the catalog whatever the search string is.
KeySpaceIgnoresFilter ==
  /\ Normal
  /\ LET song == Get(playlist, selected_song_index)
     IN IF song # NoSong
        THEN PlayEnter("play_selected_song", song, NoIndex)
        ELSE NoPlay("play_selected_song")

\* KeyCode::Char(' '): play_selected_song (app.rs:173-185).
KeySpace ==
  /\ Normal
  /\ LET song == Get(ActiveList, selected_song_index)
     IN IF song # NoSong
        THEN PlayEnter("play_selected_song", song, NoIndex)
        ELSE NoPlay("play_selected_song")

\* KeyCode::Char('n'): next_song (app.rs:275-301).
KeyN ==
  /\ Normal
  /\ IF ActiveList = <<>>
     THEN NoPlay("next_song")
     ELSE LET i == NextIndex(Position(ActiveList, current_song_path),
                             Len(ActiveList))
          IN PlayEnter("next_song", ActiveList[i + 1], i)

\* KeyCode::Char('b'): previous_song (app.rs:303-335).
KeyB ==
  /\ Normal
  /\ IF ActiveList = <<>>
     THEN NoPlay("previous_song")
     ELSE LET i == PrevIndex(Position(ActiveList, current_song_path),
                             Len(ActiveList))
          IN PlayEnter("previous_song", ActiveList[i + 1], i)

\* The history of a handler that is one step long.
Atomic(op) ==
  /\ last' = [op |-> op, res |-> "Ok", path |-> NoSong]
  /\ pre' = Snapshot
  /\ run' = NoRun
  /\ tick' = FALSE
  /\ sought' = NoSeek
  /\ UNCHANGED <<ctlVars, drawn, sent>>

\* KeyCode::Char('p'): play_pause (app.rs:125-135).
KeyP ==
  /\ Normal
  /\ IF hasSink
     THEN IF sinkPaused
          THEN sinkPaused' = FALSE /\ is_playing' = TRUE
          ELSE sinkPaused' = TRUE /\ is_playing' = FALSE
     ELSE UNCHANGED <<sinkPaused, is_playing>>
  /\ Atomic("play_pause")
  /\ UNCHANGED <<input, input_mode, playlist, search_results, hasSink,
                 current_song_path, selected_song_index, sinkSrc, sinkPos,
                 threadVars>>

\* A select_next that also makes the selected song the now-playing one.
KeyDownFollows ==
  /\ Normal
  /\ selected_song_index' =
       (IF ActiveList = <<>> THEN selected_song_index
        ELSE SelectNextIndex(selected_song_index, Len(ActiveList)))
  /\ current_song_path' = Get(ActiveList, selected_song_index')
  /\ Atomic("select_next")
  /\ UNCHANGED <<input, input_mode, playlist, search_results, hasSink,
                 is_playing, sinkVars, threadVars>>

\* KeyCode::Down: select_next (app.rs:337-351).
KeyDown ==
  /\ Normal
  /\ selected_song_index' =
       (IF ActiveList = <<>> THEN selected_song_index
        ELSE SelectNextIndex(selected_song_index, Len(ActiveList)))
  /\ Atomic("select_next")
  /\ UNCHANGED <<input, input_mode, playlist, search_results, hasSink,
                 current_song_path, is_playing, sinkVars, threadVars>>

\* KeyCode::Up: select_previous (app.rs:353-369).
KeyUp ==
  /\ Normal
  /\ selected_song_index' =
       (IF ActiveList = <<>> THEN selected_song_index
        ELSE SelectPrevIndex(selected_song_index, Len(ActiveList)))
  /\ Atomic("select_previous")
  /\ UNCHANGED <<input, input_mode, playlist, search_results, hasSink,
                 current_song_path, is_playing, sinkVars, threadVars>>

\* KeyCode::Char('c') (app.rs:397-402).
KeyC ==
  /\ Normal
  /\ input' = <<>>
  /\ search_results' = <<>>
  /\ selected_song_index' = (IF playlist = <<>> THEN NoIndex ELSE 0)
  /\ Atomic("clear")
  /\ UNCHANGED <<input_mode, playlist, hasSink, current_song_path, is_playing,
                 sinkVars, threadVars>>

\* KeyCode::Char('e') (app.rs:381).
KeyE ==
  /\ Normal
  /\ input_mode' = "Editing"
  /\ Atomic("edit")
  /\ UNCHANGED <<input, playlist, search_results, hasSink, current_song_path,
                 selected_song_index, is_playing, sinkVars, threadVars>>

\* KeyCode::Enter in Editing (app.rs:406-420).
EditEnter ==
  /\ Editing
  /\ search_results' = Filter(playlist, input)
  /\ selected_song_index' = (IF search_results' = <<>> THEN NoIndex ELSE 0)
  /\ input_mode' = "Normal"
  /\ Atomic("search")
  /\ UNCHANGED <<input, playlist, hasSink, current_song_path, is_playing,
                 sinkVars, threadVars>>

\* KeyCode::Char(c) in Editing (app.rs:421).
EditChar ==
  /\ Editing
  /\ \E c \in TypedChars : IsPrefix(Append(input, c)) /\ input' = Append(input, c)
  /\ Atomic("type")
  /\ UNCHANGED <<input_mode, playlist, search_results, hasSink,
                 current_song_path, selected_song_index, is_playing, sinkVars,
                 threadVars>>

\* KeyCode::Backspace in Editing (app.rs:422-424): String::pop.
EditBackspace ==
  /\ Editing
  /\ input' = (IF input = <<>> THEN <<>> ELSE SubSeq(input, 1, Len(input) - 1))
  /\ Atomic("backspace")
  /\ UNCHANGED <<input_mode, playlist, search_results, hasSink,
                 current_song_path, selected_song_index, is_playing, sinkVars,
                 threadVars>>

\* KeyCode::Esc in Editing (app.rs:425).
EditEsc ==
  /\ Editing
  /\ input_mode' = "Normal"
  /\ Atomic("escape")
  /\ UNCHANGED <<input, playlist, search_results, hasSink, current_song_path,
                 selected_song_index, is_playing, sinkVars, threadVars>>

\* One turn of the run_app loop in which event::poll times out
\* (app.rs:375-378, 433): nothing but terminal.draw runs.  ui() locks
\* spectrogram_data (ui.rs:50), blocking while an analyzer holds the lock,
\* reads every entry of the frame into the bars (ui.rs:57-70) and drops the
\* guard on return.
Draw ==
  /\ pc = "idle"
  /\ lock = 0
  /\ drawn' = [done |-> TRUE, frame |-> spectrogram_data]
  /\ tick' = (is_playing /\ sinkSrc = 0)
  /\ UNCHANGED <<appVars, sinkVars, threadVars, ctlVars, last, pre, run,
                 sought, sent>>

\* is_seekable (app.rs:137-139).
IsSeekable == hasSink /\ sinkSrc # 0

\* current_pos - 5 s without the comparison that guards it.
SeekBackwardUnchecked(p) == p - SeekStep

\* new_pos of seek_forward (app.rs:145) and of seek_backward (app.rs:158-162).
SeekForwardTarget(p) == p + SeekStep
SeekBackwardTarget(p) == IF p > SeekStep THEN p - SeekStep ELSE 0

\* A seek handler (app.rs:141-171): nothing happens unless is_seekable;
\* otherwise sink.try_seek(target) is called and its error only printed.
\* RingBufferSource has no try_seek of its own, and whether the sink then
\* reports the requested position or the old one is left open.
Seek(op, target) ==
  /\ Normal
  /\ IF IsSeekable
     THEN /\ sought' = [op |-> op, from |-> sinkPos, target |-> target]
          /\ sinkPos' \in {sinkPos} \cup {t \in {target} : t >= 0 /\ t <= MaxPos}
     ELSE /\ sought' = NoSeek
          /\ UNCHANGED sinkPos
  /\ last' = [op |-> op, res |-> "Ok", path |-> NoSong]
  /\ pre' = Snapshot
  /\ run' = NoRun
  /\ tick' = FALSE
  /\ UNCHANGED <<appVars, sinkSrc, sinkPaused, threadVars, ctlVars, drawn, sent>>

\* KeyCode::Left: seek_backward; KeyCode::Right: seek_forward.
KeyLeft == Seek("seek_backward", SeekBackwardTarget(sinkPos))
KeyRight == Seek("seek_forward", SeekForwardTarget(sinkPos))

\* ------------------------------------------------------ worker threads
\* The consumer half of playback_rb of generation g is still owned: by the
\* local playback_cons before sink.append, by the sink afterwards.
ConsumerLive(g) == sinkSrc = g \/ (pc = "append" /\ gen = g)

\* The feeder leaves its loop (app.rs:212, 219-222): both producer halves
\* are dropped with the closure.
FeederExit(g) ==
  /\ feeder' = [feeder EXCEPT ![g].pc = "done"]
  /\ playback' = (IF ConsumerLive(g) THEN playback
                  ELSE [playback EXCEPT ![g] = <<>>])
  /\ UNCHANGED spectrum

\* One evaluation of the loop condition and of source.next()
\* (app.rs:212-213, 219-221).
FeederCheck(g) ==
  /\ feeder[g].pc = "check"
  /\ IF stop_audio_thread \/ feeder[g].pos >= feeder[g].len
     THEN FeederExit(g)
     ELSE /\ feeder' = [feeder EXCEPT ![g].pc = "wait", ![g].pos = @ + 1]
          /\ UNCHANGED <<playback, spectrum>>
  /\ UNCHANGED <<appVars, sinkVars, gen, analyzer, lock,
                 spectrogram_data, audio_thread_handle, stop_audio_thread,
                 ctlVars, histVars>>

\* A feeder that pushes to spectrogram_rb on every turn of its inner loop,
\* also on those that find playback_rb full and sleep.
FeederPushSpectrumEachTurn(g) ==
  /\ feeder[g].pc = "wait"
  /\ playback' = [playback EXCEPT ![g] =
                    IF Len(@) < RingCap THEN Append(@, feeder[g].pos) ELSE @]
  /\ spectrum' = [spectrum EXCEPT ![g] =
                    IF Len(@) < RingCap THEN Append(@, feeder[g].pos) ELSE @]
  /\ feeder' = [feeder EXCEPT ![g].pc =
                  IF Len(playback[g]) < RingCap THEN "check" ELSE "wait"]
  /\ sent' = [sent EXCEPT
                ![g].playback = IF Len(playback[g]) < RingCap
                                THEN Append(@, feeder[g].pos) ELSE @,
                ![g].spectrum = IF Len(spectrum[g]) < RingCap
                                THEN Append(@, feeder[g].pos) ELSE @]
  /\ UNCHANGED <<appVars, sinkVars, gen, analyzer, lock,
                 spectrogram_data, audio_thread_handle, stop_audio_thread,
                 ctlVars, last, pre, run, tick, drawn, sought>>

\* A feeder that pushes without waiting for room: on a full playback_rb the
\* push fails and its result is discarded.
FeederPushNoWait(g) ==
  /\ feeder[g].pc = "wait"
  /\ playback' = [playback EXCEPT ![g] =
                    IF Len(@) < RingCap THEN Append(@, feeder[g].pos) ELSE @]
  /\ spectrum' = [spectrum EXCEPT ![g] =
                    IF Len(@) < RingCap THEN Append(@, feeder[g].pos) ELSE @]
  /\ feeder' = [feeder EXCEPT ![g].pc = "check"]
  /\ sent' = [sent EXCEPT
                ![g].playback = IF Len(playback[g]) < RingCap
                                THEN Append(@, feeder[g].pos) ELSE @,
                ![g].spectrum = IF Len(spectrum[g]) < RingCap
                                THEN Append(@, feeder[g].pos) ELSE @]
  /\ UNCHANGED <<appVars, sinkVars, gen, analyzer, lock,
                 spectrogram_data, audio_thread_handle, stop_audio_thread,
                 ctlVars, last, pre, run, tick, drawn, sought>>

\* The inner loop falls through and both pushes run (app.rs:214-218); the
\* push to spectrogram_rb is dropped when that ring is full.  While
\* playback_rb is full the thread only sleeps and tests again.
FeederPush(g) ==
  /\ feeder[g].pc = "wait"
  /\ Len(playback[g]) < RingCap
  /\ playback' = [playback EXCEPT ![g] = Append(@, feeder[g].pos)]
  /\ spectrum' = [spectrum EXCEPT ![g] =
                    IF Len(@) < RingCap THEN Append(@, feeder[g].pos) ELSE @]
  /\ feeder' = [feeder EXCEPT ![g].pc = "check"]
  /\ sent' = [sent EXCEPT
                ![g].playback = Append(@, feeder[g].pos),
                ![g].spectrum = IF Len(spectrum[g]) < RingCap
                                THEN Append(@, feeder[g].pos) ELSE @]
  /\ UNCHANGED <<appVars, sinkVars, gen, analyzer, lock,
                 spectrogram_data, audio_thread_handle, stop_audio_thread,
                 ctlVars, last, pre, run, tick, drawn, sought>>

\* The output thread calls RingBufferSource::next (app.rs:32-34) on the
\* source the sink holds, unless the sink is paused.  None ends the source:
\* the sink drops it and is empty again.
SinkPull ==
  /\ sinkSrc # 0
  /\ ~sinkPaused
  /\ IF playback[sinkSrc] # <<>>
     THEN /\ playback' = [playback EXCEPT ![sinkSrc] = Tail(@)]
          /\ UNCHANGED <<sinkSrc, sinkPos>>
     ELSE /\ sinkSrc' = 0
          /\ sinkPos' = 0
          /\ playback' = DropConsumer(sinkSrc)
  /\ UNCHANGED <<appVars, sinkPaused, gen, feeder, analyzer, spectrum,
                 lock, spectrogram_data, audio_thread_handle, stop_audio_thread,
                 ctlVars, histVars>>

\* A second of audio has been played: the sink's position advances while
\* it holds a source and is not paused.
Elapse ==
  /\ sinkSrc # 0
  /\ ~sinkPaused
  /\ sinkPos < MaxPos
  /\ sinkPos' = sinkPos + 1
  /\ UNCHANGED <<appVars, sinkSrc, sinkPaused, threadVars, ctlVars, histVars>>

\* One pop of the collecting loop (app.rs:236-240).
AnalyzerPop(g) ==
  /\ analyzer[g].pc = "collect"
  /\ Len(analyzer[g].buf) < FftSize
  /\ spectrum[g] # <<>>
  /\ analyzer' = [analyzer EXCEPT ![g].buf = Append(@, Head(spectrum[g]))]
  /\ spectrum' = [spectrum EXCEPT ![g] = Tail(@)]
  /\ UNCHANGED <<appVars, sinkVars, gen, feeder, playback, lock,
                 spectrogram_data, audio_thread_handle, stop_audio_thread,
                 ctlVars, histVars>>

\* The window is complete: drain it, window it and run the FFT
\* (app.rs:243-250).  With fewer samples and an empty ring the thread only
\* sleeps (app.rs:261) and collects again.
AnalyzerFft(g) ==
  /\ analyzer[g].pc = "collect"
  /\ Len(analyzer[g].buf) >= FftSize
  /\ analyzer' = [analyzer EXCEPT ![g] =
        [pc |-> "lock",
         buf |-> SubSeq(@.buf, FftSize + 1, Len(@.buf)),
         out |-> Frame(SubSeq(@.buf, 1, FftSize))]]
  /\ UNCHANGED <<appVars, sinkVars, gen, feeder, playback, spectrum,
                 lock, spectrogram_data, audio_thread_handle, stop_audio_thread,
                 ctlVars, histVars>>

\* spectrogram_data.lock() (app.rs:252).
AnalyzerLock(g) ==
  /\ analyzer[g].pc = "lock"
  /\ lock = 0
  /\ lock' = g
  /\ analyzer' = [analyzer EXCEPT ![g].pc = "write"]
  /\ UNCHANGED <<appVars, sinkVars, gen, feeder, playback, spectrum,
                 spectrogram_data, audio_thread_handle, stop_audio_thread,
                 ctlVars, histVars>>

\* A write whose guard outlives the block: the lock is still held while the
\* thread sleeps and collects the next window.
AnalyzerWriteKeepsLock(g) ==
  /\ analyzer[g].pc = "write"
  /\ spectrogram_data' = analyzer[g].out
  /\ analyzer' = [analyzer EXCEPT ![g].pc = "collect", ![g].out = <<>>]
  /\ UNCHANGED <<appVars, sinkVars, gen, feeder, playback, spectrum, lock,
                 audio_thread_handle, stop_audio_thread, ctlVars, histVars>>

\* The frame is replaced and the guard dropped at the end of the block
\* (app.rs:253-258); the thread then sleeps and collects again.
AnalyzerWrite(g) ==
  /\ analyzer[g].pc = "write"
  /\ spectrogram_data' = analyzer[g].out
  /\ lock' = 0
  /\ analyzer' = [analyzer EXCEPT ![g].pc = "collect", ![g].out = <<>>]
  /\ UNCHANGED <<appVars, sinkVars, gen, feeder, playback, spectrum,
                 audio_thread_handle, stop_audio_thread, ctlVars, histVars>>

Feeder == \E g \in Gens : FeederCheck(g) \/ FeederPush(g)
Analyzer ==
  \E g \in Gens :
    AnalyzerPop(g) \/ AnalyzerFft(g) \/ AnalyzerLock(g) \/ AnalyzerWrite(g)

\* ------------------------------------------------------ specifications
Transport == KeySpace \/ KeyN \/ KeyB \/ KeyP \/ PlayJoin \/ PlayAppend
Selection == KeyDown \/ KeyUp
Search == KeyC \/ KeyE \/ EditEnter \/ EditChar \/ EditBackspace \/ EditEsc
Workers == Feeder \/ SinkPull \/ Analyzer

\* The pipeline under the keys Space, 'n' and 'p', over a catalog of songs
\* that fill the rings ('b' differs from 'n' only in the index it computes).
Next == KeySpace \/ KeyN \/ KeyP \/ PlayJoin \/ PlayAppend \/ Workers \/ Draw
Spec == Init /\ [][Next]_vars

\* Every key, over catalogs of songs that decode to an empty stream: no
\* other step of a worker thread is ever enabled there.
NextNav ==
  Transport \/ Selection \/ Search \/ (\E g \in Gens : FeederCheck(g)) \/ SinkPull
SpecNav == InitNav /\ [][NextNav]_vars

\* The two rings, the analyzers and the renderer while Space restarts the
\* song, over a song long enough for two analysis windows.  A paused sink
\* is a sink that takes no step, so 'p' adds no behaviour of the workers.
NextFrame == KeySpace \/ PlayJoin \/ PlayAppend \/ Workers \/ Draw
SpecFrame == InitFrame /\ [][NextFrame]_vars

\* The feeders, the sink and the analyzers while Space restarts a song that
\* is longer than a ring.
NextRings == KeySpace \/ PlayJoin \/ PlayAppend \/ Workers
SpecRings == InitRings /\ [][NextRings]_vars

\* Every transport and selection key with the seek keys, with and without a
\* sink, while the position of the sink advances; the analyzers, which no
\* handler reads, are left out.
NextSeek ==
  Transport \/ Selection \/ KeyLeft \/ KeyRight \/ Feeder \/ SinkPull \/ Elapse
SpecSeek == InitSeek /\ [][NextSeek]_vars

\* --------------------------------------------------------------- claims
\* A thread that has been spawned and has not returned.  The analyzer's
\* loop (app.rs:234-262) has no exit.
FeederLive(g) == feeder[g].pc \in {"check", "wait"}
AnalyzerLive(g) == analyzer[g].pc # "unborn"

\* The samples generation g's feeder has pushed to its playback ring.
Pushed(g) == IF feeder[g].pc = "wait" THEN feeder[g].pos - 1 ELSE feeder[g].pos

PlayOps == {"play_selected_song", "next_song", "previous_song"}
AdvanceOps == {"next_song", "previous_song"}

\* C1: once a generation has performed its first write (its feeder has
\* pushed a sample), every writer of every older generation, feeder and
\* analyzer alike, has terminated.
C1_OldWritersRetired ==
  \A g \in Gens : \A h \in 1..(g - 1) :
    Pushed(g) > 0 => ~FeederLive(h) /\ ~AnalyzerLive(h)

\* C2: after play_song_by_path returned Ok for a decodable song (an output
\* sink being present), current_song_path is that song, is_playing holds
\* and no thread of a previous generation is live.
C2_PlayReturns ==
  (last.op \in PlayOps /\ last.res = "Ok" /\ last.path # NoSong /\ hasSink
   /\ pc = "idle")
    => /\ current_song_path = last.path
       /\ is_playing
       /\ \A h \in 1..(gen - 1) : ~FeederLive(h) /\ ~AnalyzerLive(h)

\* C3: whenever the control thread waits in handle.join() with the stop
\* flag set, the feeder it waits for has ended or can still take a step
\* towards observing the flag.
C3_JoinReturns ==
  pc = "join" =>
    \/ JoinReturns
    \/ ENABLED (FeederCheck(audio_thread_handle)
                \/ FeederPush(audio_thread_handle))

\* C4: at most two pipeline threads are live, and every live one belongs
\* to the current generation.
C4_AtMostTwoWorkers ==
  /\ Cardinality({g \in Gens : FeederLive(g)})
       + Cardinality({g \in Gens : AnalyzerLive(g)}) <= 2
  /\ \A g \in Gens : (FeederLive(g) \/ AnalyzerLive(g)) => g = gen

\* C5: after play_song_by_path returned Err, no generation was spawned,
\* is_playing and current_song_path are as on entry, and the pipeline that
\* was active on entry was left alone: the sink's pause state is as on
\* entry and the feeder that was running still runs unless it has decoded
\* its whole song.
C5_FailedPlayKeepsState ==
  (last.op \in PlayOps /\ last.res = "Err" /\ pc = "idle")
    => /\ gen = pre.gen
       /\ is_playing = pre.is_playing
       /\ current_song_path = pre.current
       /\ sinkPaused = pre.sinkPaused
       /\ pre.feederLive =>
            \/ FeederLive(pre.handle)
            \/ feeder[pre.handle].pos = feeder[pre.handle].len

\* C6: play_pause turns Playing into Paused and Paused into Playing, and
\* with no song loaded it leaves the controller Idle with is_playing false.
C6_TogglePlayPause ==
  last.op = "play_pause" =>
    /\ pre.current = NoSong => (current_song_path = NoSong /\ ~is_playing)
    /\ (pre.current # NoSong /\ hasSink) => is_playing = ~pre.is_playing

InScenario ==
  /\ playlist = <<"a.mp3", "b.flac", "c.wav">>
  /\ input = <<>>
  /\ hasSink
  /\ run.dir = "next_song"
C8_ScenarioFromCursor ==
  (InScenario /\ run.startSel = 1)
    => /\ run.count = 1 => current_song_path = "c.wav"
       /\ run.count = 2 => current_song_path = "a.mp3"

\* C8 amended: the same with b.flac the now-playing song when the run
\* begins.
C8_Scenario ==
  (InScenario /\ run.start = "b.flac")
    => /\ run.count = 1 => current_song_path = "c.wav"
       /\ run.count = 2 => current_song_path = "a.mp3"
C8_Witness ==
  InScenario /\ run.start = "b.flac" /\ run.count = 2 /\ run.startSel = 1

\* C9 as stated: an advance entered with now-playing absent from a
\* non-empty active list (a sink being present) leaves the cursor on index
\* 0 and the song at index 0 now playing, whatever the direction.
AdvancedWithoutAnchor ==
  /\ last.op \in AdvanceOps
  /\ pre.anchor = NoIndex
  /\ ActiveList # <<>>
C9_NoAnchorAlwaysPlaysFirst ==
  (AdvancedWithoutAnchor /\ hasSink)
    => /\ selected_song_index = 0
       /\ current_song_path = ActiveList[1]

\* C9 amended: in both directions the advance calls play_song_by_path on
\* the song at index 0; when that call reaches sink.append the cursor is 0
\* and that song is now playing, without a sink the cursor is 0 and
\* now-playing is unchanged, and on Err both are unchanged.
C9_NoAnchorPlaysFirst ==
  AdvancedWithoutAnchor
    => /\ last.path = ActiveList[1]
       /\ (last.res = "Ok" /\ hasSink)
            => (selected_song_index = 0 /\ current_song_path = ActiveList[1])
       /\ (last.res = "Ok" /\ ~hasSink)
            => (selected_song_index = 0 /\ current_song_path = pre.current)
       /\ last.res = "Err"
            => (selected_song_index = pre.sel /\ current_song_path = pre.current)
C9_Witness ==
  /\ AdvancedWithoutAnchor
  /\ last.op = "previous_song" /\ last.res = "Ok" /\ hasSink
  /\ pre.current # NoSong /\ Len(playlist) >= 2

\* C10: play_selected_song, next_song and previous_song on an empty active
\* list return Ok without calling play_song_by_path: current_song_path,
\* the cursor and is_playing are as on entry and no generation is spawned.
C10_EmptyListNoOp ==
  (last.op \in PlayOps /\ ActiveList = <<>>)
    => /\ last.res = "Ok"
       /\ last.path = NoSong
       /\ current_song_path = pre.current
       /\ selected_song_index = pre.sel
       /\ is_playing = pre.is_playing
       /\ gen = pre.gen
C10_Witness ==
  /\ last.op = "next_song" /\ ActiveList = <<>>
  /\ playlist # <<>> /\ current_song_path # NoSong

\* C11: whenever the control thread waits for a key in Normal mode (the
\* mode in which the cursor is read) and the active list is not empty, the
\* selection cursor is present and is an index of that list.
C11_CursorValid ==
  (Normal /\ ActiveList # <<>>)
    => /\ selected_song_index # NoIndex
       /\ selected_song_index >= 0
       /\ selected_song_index < Len(ActiveList)

\* The song of the current generation has been decoded to its end and the
\* sink has dropped its source: nothing is queued any more.
SongEnded ==
  /\ audio_thread_handle # NoHandle
  /\ audio_thread_handle = gen
  /\ feeder[gen].pc = "done"
  /\ feeder[gen].pos = feeder[gen].len
  /\ sinkSrc = 0

\* C12: a turn of the control loop that reads no key and finds is_playing
\* set and the sink drained at the end of the song fires next_song: when
\* that turn ends the control thread is inside the handler, not idle with
\* the same song still now-playing.
C12_TickAdvances ==
  (tick /\ SongEnded /\ ActiveList # <<>>) => pc # "idle"

\* A frame of exactly fft_size / 2 entries, each of them a finite number.
CompleteFrame(frame) ==
  /\ Len(frame) = FftSize \div 2
  /\ \A k \in 1..Len(frame) : frame[k].finite

\* C13: the frame ui() has read under the lock, and the frame behind the
\* lock whenever no analyzer holds it, has exactly fft_size / 2 entries and
\* every entry is finite, whatever analyzers of whatever generations have
\* written in between.
C13_CompleteFrame ==
  /\ drawn.done => CompleteFrame(drawn.frame)
  /\ lock = 0 => CompleteFrame(spectrogram_data)
\* ui() has drawn a frame that an analyzer wrote from the second, audible
\* window of the song, while the analyzers of two generations run.
C13_Witness ==
  /\ drawn.done
  /\ drawn.frame # [k \in 1..(FftSize \div 2) |-> ZeroValue]
  /\ gen = 2
  /\ \A g \in 1..2 : AnalyzerLive(g)

\* C14: seek_backward from position p asks the sink for max(p - 5 s, 0):
\* exactly 0 from any p below 5 s, and never a negative position.
C14_SeekBackwardClamps ==
  sought.op = "seek_backward"
    => /\ sought.target >= 0
       /\ sought.from < SeekStep => sought.target = 0
       /\ sought.from >= SeekStep => sought.target = sought.from - SeekStep
\* seek_backward was called less than 5 s into the song.
C14_Witness ==
  /\ sought.op = "seek_backward"
  /\ sought.from > 0
  /\ sought.from < SeekStep

\* C15: a step of select_next or select_previous leaves current_song_path,
\* is_playing, the sink, the worker threads, their rings, the stop flag,
\* the search string and both lists as they are: of the program's state
\* only selected_song_index may differ after it.
C15_SelectMovesOnlyCursor ==
  [][(KeyDown \/ KeyUp)
       => UNCHANGED <<input, input_mode, playlist, search_results, hasSink,
                      current_song_path, is_playing, sinkVars, threadVars,
                      ctlVars>>]_vars
\* A select has moved the cursor away from the song that is playing.
C15_Witness ==
  /\ pc = "idle"
  /\ last.op \in {"select_next", "select_previous"}
  /\ selected_song_index # pre.sel
  /\ is_playing /\ sinkSrc # 0
  /\ current_song_path # NoSong
  /\ Get(ActiveList, selected_song_index) # current_song_path

\* C16: without a sink every handler returns at once and without an error,
\* no thread is ever spawned, nothing is sought or marked as playing, and
\* select_next and select_previous still move the cursor over a non-empty
\* active list.
C16_NoSinkDegrades ==
  ~hasSink
    => /\ pc = "idle"
       /\ last.res # "Err"
       /\ gen = 0
       /\ \A g \in Gens : ~FeederLive(g) /\ ~AnalyzerLive(g)
       /\ audio_thread_handle = NoHandle
       /\ sought = NoSeek
       /\ ~is_playing
       /\ (last.op = "select_next" /\ ActiveList # <<>>)
            => selected_song_index = SelectNextIndex(pre.sel, Len(ActiveList))
       /\ (last.op = "select_previous" /\ ActiveList # <<>>)
            => selected_song_index = SelectPrevIndex(pre.sel, Len(ActiveList))
\* Without a sink, play_selected_song has returned Ok for the file that
\* cannot be decoded, after the cursor was moved onto it.
C16_Witness ==
  /\ ~hasSink
  /\ last.op = "play_selected_song"
  /\ last.res = "Ok"
  /\ ~Decodable(last.path)
  /\ selected_song_index > 0

\* tail is what is left of whole when some prefix of it is taken away.
IsSuffix(tail, whole) ==
  /\ Len(tail) <= Len(whole)
  /\ tail = SubSeq(whole, Len(whole) - Len(tail) + 1, Len(whole))

\* C17: in every generation the samples pushed to the playback ring are
\* exactly the samples the feeder has pulled from the decoder, each once and
\* in decode order, but for the one it holds while it waits for room; the
\* ring holds the latest of them, in that order.
C17_PlaybackInOrder ==
  \A g \in Gens :
    /\ sent[g].playback = [i \in 1..Pushed(g) |-> i]
    /\ feeder[g].pos - Len(sent[g].playback) \in {0, 1}
    /\ feeder[g].pc \in {"check", "done"}
         => Len(sent[g].playback) = feeder[g].pos
    /\ IsSuffix(playback[g], sent[g].playback)
\* A feeder has delivered a whole song that is longer than the ring.
C17_Witness ==
  \E g \in Gens :
    /\ feeder[g].pc = "done"
    /\ feeder[g].len > RingCap
    /\ Len(sent[g].playback) = feeder[g].len

\* a can be had from b by deleting entries of b.
RECURSIVE IsSubsequence(_, _)
IsSubsequence(a, b) ==
  IF a = <<>> THEN TRUE
  ELSE IF b = <<>> THEN FALSE
  ELSE IF Head(a) = Head(b) THEN IsSubsequence(Tail(a), Tail(b))
  ELSE IsSubsequence(a, Tail(b))

\* C18 as stated: in every generation, once a push is complete, the
\* samples delivered to the spectrum ring are the very sequence delivered
\* to the playback ring, also when the spectrum ring was full.
C18_SameSequence ==
  \A g \in Gens : sent[g].spectrum = sent[g].playback

\* C18, amended: in every generation the samples delivered to the spectrum
\* ring are a subsequence of those delivered to the playback ring, in the
\* same order and none twice; the first ones, up to the capacity of the
\* ring, are all delivered, later ones are left out when the ring is full;
\* the ring and the analyzer's buffer hold them in that order.
C18_SpectrumSubsequence ==
  \A g \in Gens :
    /\ IsSubsequence(sent[g].spectrum, sent[g].playback)
    /\ Len(sent[g].spectrum) >= Min(Len(sent[g].playback), RingCap)
    /\ IsSuffix(spectrum[g], sent[g].spectrum)
    /\ IsSubsequence(analyzer[g].buf \o spectrum[g], sent[g].spectrum)
\* A sample was pushed to the playback ring and left out of the spectrum
\* ring, which was full; the analyzer has taken samples since.
C18_Witness ==
  \E g \in Gens :
    /\ feeder[g].pc = "done"
    /\ Len(sent[g].spectrum) < Len(sent[g].playback)
    /\ Len(spectrum[g]) < RingCap

\* C19: an analyzer holds the lock of spectrogram_data exactly while it
\* replaces the frame: not while it collects samples from its ring or
\* sleeps, not while it runs the FFT, and not before lock() has returned.
C19_LockOnlyWhileReplacing ==
  /\ lock \in {0} \cup Gens
  /\ \A g \in Gens : (lock = g) <=> (analyzer[g].pc = "write")
\* The analyzer of the first generation holds the lock to replace the
\* frame while the analyzer of the second has a frame ready and waits.
C19_Witness ==
  /\ lock = 1
  /\ analyzer[1].pc = "write"
  /\ analyzer[2].pc = "lock"

\* C20: while the control thread is idle after a play that spawned the
\* current generation, the sink still holds that generation's source
\* unless its feeder has pushed the whole song and ended: a pull that
\* finds the playback ring empty while the feeder is still at work does not
\* make the sink drop the source.
C20_UnderrunKeepsSource ==
  (pc = "idle" /\ audio_thread_handle # NoHandle)
    => \/ sinkSrc = audio_thread_handle
       \/ IF audio_thread_handle \in Gens
          THEN /\ feeder[audio_thread_handle].pc = "done"
               /\ feeder[audio_thread_handle].pos =
                    feeder[audio_thread_handle].len
          ELSE FALSE

\* next_song or previous_song has returned after calling play_song_by_path,
\* which it does exactly when the active list is not empty.
AdvanceReturned ==
  /\ last.op \in AdvanceOps
  /\ last.path # NoSong
  /\ ActiveList # <<>>

\* C21 as stated: after next_song or previous_song has returned Ok on a
\* non-empty active list the cursor is the index of the now-playing song
\* in that list, and after it has returned Err the cursor is as on entry.
C21_CursorOnNowPlayingAlways ==
  AdvanceReturned
    => /\ last.res = "Ok"
            => Get(ActiveList, selected_song_index) = current_song_path
       /\ last.res = "Err" => selected_song_index = pre.sel

\* C21, amended: with a sink, after next_song or previous_song has returned
\* Ok the cursor is the index of the now-playing song, which is the song
\* the handler chose; without a sink the handler returns Ok as well, the
\* cursor is the index it chose and current_song_path is left as it was,
\* so the cursor need not index it; after Err the cursor and
\* current_song_path are as on entry.
C21_CursorOnNowPlaying ==
  AdvanceReturned
    => /\ (last.res = "Ok" /\ hasSink)
            => /\ current_song_path = last.path
               /\ Get(ActiveList, selected_song_index) = current_song_path
       /\ (last.res = "Ok" /\ ~hasSink)
            => /\ Get(ActiveList, selected_song_index) = last.path
               /\ current_song_path = pre.current
       /\ last.res = "Err"
            => /\ selected_song_index = pre.sel
               /\ current_song_path = pre.current
\* With a sink and a song already playing, next_song or previous_song has
\* returned Ok and moved the cursor off the row it was on.
C21_Witness ==
  /\ AdvanceReturned
  /\ hasSink
  /\ last.res = "Ok"
  /\ selected_song_index # pre.sel
  /\ pre.current # NoSong

====
